---- MODULE Spec2Model ----
(***************************************************************************)
(* Model of the jump game page object of src/pages/index/index.ts.         *)
(*                                                                         *)
(* Units.  Platform centres and sizes are whole pixels, as the code        *)
(* builds them from Math.round and randInt only.  The player's position    *)
(* is carried in 1/Scale pixel, the velocity in whole px/s and dt in       *)
(* whole milliseconds, so that  position += velocity * dt  and             *)
(* velocity.y += gravity * dt  are exact.  The launch vector of            *)
(* onTouchEnd (a quotient by Math.hypot) is rounded to whole px/s.         *)
(* Colours and the canvas drawing calls carry no game state and are left   *)
(* out; Date.now() and the frame timestamps enter as the press duration    *)
(* and the dt of a step.                                                   *)
(***************************************************************************)
EXTENDS Integers, Sequences, FiniteSets, TLC

VARIABLES gameStarted, gameOver, showOverlay, score,
          ctx, player, platforms, currentPlatformId, targetPlatformId,
          isPressing, loopRunning, faults,
          lastOp, press, airPresses, landings

vars == <<gameStarted, gameOver, showOverlay, score,
          ctx, player, platforms, currentPlatformId, targetPlatformId,
          isPressing, loopRunning, faults,
          lastOp, press, airPresses, landings>>

----------------------------------------------------------------------------
(* Viewport reported by wx.getSystemInfoSync, and the page's constants.    *)
canvasWidth == 400
canvasHeight == 800
gravity == 2000
chargeFactor10 == 42
horizontalFactor10 == 6
initialRadius == 18
maxDtMs == 33
maxChargeMs == 1200
fallMargin == 80
trimThreshold == 8
trimKeep == 6

(* Bounds of the model.                                                    *)
Scale == 1000
MaxDepth == 1000
MaxAirPresses == 1

(* Inputs: frame steps (ms), press durations (ms), random draws.           *)
DtSet == {0, maxDtMs}
PressDurations == {200, 260}

----------------------------------------------------------------------------
(* Arithmetic helpers.                                                     *)
Min(a, b) == IF a <= b THEN a ELSE b
Max(a, b) == IF a >= b THEN a ELSE b

(* Math.round(num / den) for den > 0: the nearest integer, halves up.      *)
Round(num, den) == (2 * num + den) \div (2 * den)

clamp(v, lo, hi) == Max(lo, Min(hi, v))

RECURSIVE SqrtBetween(_, _, _)
SqrtBetween(n, lo, hi) ==
    IF lo >= hi THEN lo
    ELSE LET mid == (lo + hi + 1) \div 2
         IN  IF mid * mid <= n THEN SqrtBetween(n, mid, hi)
                               ELSE SqrtBetween(n, lo, mid - 1)

(* floor(sqrt(n)) for 0 <= n < 2^31.                                       *)
Isqrt(n) == SqrtBetween(n, 0, 46340)

(* 10 * Math.max(1, Math.hypot(dx, dy)), to one decimal.                   *)
Len10(dx, dy) == Max(10, Isqrt((dx * dx + dy * dy) * 100))

----------------------------------------------------------------------------
(* JavaScript array reads: platforms[i] is undefined outside the array.    *)
Defined(arr, i) == i >= 0 /\ i < Len(arr)
At(arr, i) == arr[i + 1]

(* slice(0, n): the oldest n instead of the newest n.                      *)
SliceLast_First(arr, n) ==
    IF Len(arr) <= n THEN arr ELSE SubSeq(arr, 1, n)

(* slice(-n)                                                               *)
SliceLast(arr, n) ==
    IF Len(arr) <= n THEN arr ELSE SubSeq(arr, Len(arr) - n + 1, Len(arr))

----------------------------------------------------------------------------
(* Viewport-derived quantities of generateNextPlatform and resetWorld.     *)
minDx == Round(canvasWidth * 22, 100)
maxDx == Round(canvasWidth * 45, 100)
minW == Round(canvasWidth * 16, 100)
maxW == Round(canvasWidth * 28, 100)
minX == Round(canvasWidth * 18, 100)
maxX == Round(canvasWidth * 82, 100)
yVariance == Round(canvasHeight * 6, 100)
minY == Round(canvasHeight * 35, 100)
maxY == Round(canvasHeight * 80, 100)
desiredX == Round(canvasWidth * 3, 10)
baseY == Round(canvasHeight * 7, 10)

(* Outcomes of the Math.random calls of one generateNextPlatform: the      *)
(* magnitude of dx, its sign, the width and the vertical offset.           *)
DxDraws == {minDx}
SignDraws == {1}
WidthDraws == {minW}
YDraws == {0}
Draws == [dx : DxDraws, sign : SignDraws, width : WidthDraws, yoff : YDraws]

(* generateNextPlatform giving the new platform its predecessor's id.      *)
generateNextPlatform_SameId(prev, r) ==
    LET dx == r.dx * r.sign
        width == r.width
        height == Max(12, Round(width * 28, 100))
        x == clamp(prev.position.x + dx, minX, maxX)
        y == clamp(prev.position.y + r.yoff, minY, maxY)
    IN  [id |-> prev.id,
         position |-> [x |-> x, y |-> y],
         size |-> [x |-> width, y |-> height]]

generateNextPlatform(prev, r) ==
    LET dx == r.dx * r.sign
        width == r.width
        height == Max(12, Round(width * 28, 100))
        x == clamp(prev.position.x + dx, minX, maxX)
        y == clamp(prev.position.y + r.yoff, minY, maxY)
    IN  [id |-> prev.id + 1,
         position |-> [x |-> x, y |-> y],
         size |-> [x |-> width, y |-> height]]

(* The part of the page the handlers read and write, as one record.        *)
(* threw: the handler ended in an uncaught TypeError.                      *)
World ==
    [player |-> player, platforms |-> platforms,
     currentPlatformId |-> currentPlatformId,
     targetPlatformId |-> targetPlatformId,
     score |-> score, gameStarted |-> gameStarted, gameOver |-> gameOver,
     showOverlay |-> showOverlay, isPressing |-> isPressing, threw |-> FALSE]

(* resetWorld leaving the score as it was.                                 *)
resetWorld_KeepsScore(w, r) ==
    LET radius == Round(canvasWidth, 20)
        p0 == [id |-> 0,
               position |-> [x |-> Round(canvasWidth * 3, 10), y |-> baseY],
               size |-> [x |-> Round(canvasWidth * 22, 100),
                         y |-> Round(canvasWidth * 6, 100)]]
        p1 == generateNextPlatform(p0, r)
    IN  [w EXCEPT
           !.platforms = <<p0, p1>>,
           !.currentPlatformId = 0,
           !.targetPlatformId = 1,
           !.player = [position |-> [x |-> p0.position.x * Scale,
                                     y |-> (p0.position.y - radius - 6) * Scale],
                       velocity |-> [x |-> 0, y |-> 0],
                       radius |-> radius,
                       onGround |-> TRUE]]

resetWorld(w, r) ==
    LET radius == Round(canvasWidth, 20)
        p0 == [id |-> 0,
               position |-> [x |-> Round(canvasWidth * 3, 10), y |-> baseY],
               size |-> [x |-> Round(canvasWidth * 22, 100),
                         y |-> Round(canvasWidth * 6, 100)]]
        p1 == generateNextPlatform(p0, r)
    IN  [w EXCEPT
           !.platforms = <<p0, p1>>,
           !.currentPlatformId = 0,
           !.targetPlatformId = 1,
           !.score = 0,
           !.player = [position |-> [x |-> p0.position.x * Scale,
                                     y |-> (p0.position.y - radius - 6) * Scale],
                       velocity |-> [x |-> 0, y |-> 0],
                       radius |-> radius,
                       onGround |-> TRUE]]

(* startGame without its gameStarted guard.                                *)
startGame_NoGuard(w, r) ==
    resetWorld([w EXCEPT !.gameStarted = TRUE, !.gameOver = FALSE,
                         !.showOverlay = FALSE], r)

startGame(w, r) ==
    IF w.gameStarted THEN w
    ELSE resetWorld([w EXCEPT !.gameStarted = TRUE, !.gameOver = FALSE,
                              !.showOverlay = FALSE], r)

(* restartGame going back to the not-started state.                        *)
restartGame_ClearsStarted(w, r) ==
    resetWorld([w EXCEPT !.gameStarted = FALSE, !.gameOver = FALSE,
                         !.showOverlay = FALSE], r)

restartGame(w, r) ==
    resetWorld([w EXCEPT !.gameOver = FALSE, !.showOverlay = FALSE], r)

(* onTouchStart without its session-state guard.                           *)
onTouchStart_NoGuard(w) ==
    [w EXCEPT !.isPressing = TRUE]

onTouchStart(w) ==
    IF ~w.gameStarted \/ w.gameOver THEN w
    ELSE [w EXCEPT !.isPressing = TRUE]

(* power * 10 for a press of dtMs milliseconds.                            *)
Power10(dtMs) == (Min(dtMs, maxChargeMs) * chargeFactor10 * canvasWidth) \div 1000

onTouchEnd(w, dtMs) ==
    IF ~w.gameStarted \/ w.gameOver THEN w
    ELSE IF ~w.isPressing THEN w
    ELSE LET w1 == [w EXCEPT !.isPressing = FALSE]
         IN  IF ~Defined(w.platforms, w.currentPlatformId)
                \/ ~Defined(w.platforms, w.targetPlatformId)
             THEN [w1 EXCEPT !.threw = TRUE]
             ELSE LET current == At(w.platforms, w.currentPlatformId)
                      target == At(w.platforms, w.targetPlatformId)
                      dirX == target.position.x - current.position.x
                      dirY == target.position.y - current.position.y
                      len10 == Len10(dirX, dirY)
                      power10 == Power10(dtMs)
                      vx == Round(dirX * power10 * horizontalFactor10, len10 * 10)
                      vy == Round(dirY * power10 * 40 - power10 * 8 * len10,
                                  len10 * 100)
                  IN  [w1 EXCEPT !.player.onGround = FALSE,
                                 !.player.velocity = [x |-> vx, y |-> vy]]

checkLanding(pl, platform) ==
    LET px == pl.position.x
        py == pl.position.y + pl.radius * Scale
        left == platform.position.x * Scale - (platform.size.x * Scale) \div 2
        right == platform.position.x * Scale + (platform.size.x * Scale) \div 2
        top == platform.position.y * Scale - (platform.size.y * Scale) \div 2
                 - 2 * Scale
        bottom == platform.position.y * Scale + (platform.size.y * Scale) \div 2
                 + 4 * Scale
        withinX == px >= left /\ px <= right
        withinY == py >= top /\ py <= bottom /\ pl.velocity.y >= 0
    IN  withinX /\ withinY

(* recenterWorld without the trim of the platform array.                   *)
recenterWorld_NoTrim(w) ==
    IF ~Defined(w.platforms, w.currentPlatformId)
    THEN [w EXCEPT !.threw = TRUE]
    ELSE LET current == At(w.platforms, w.currentPlatformId)
             dx == desiredX - current.position.x
         IN  IF dx = 0 THEN w
             ELSE [w EXCEPT
                     !.platforms = [i \in DOMAIN w.platforms |->
                                      [w.platforms[i] EXCEPT !.position.x = @ + dx]],
                     !.player.position.x = @ + dx * Scale]

(* recenterWorld shifting the platforms but not the player.                *)
recenterWorld_PlayerStays(w) ==
    IF ~Defined(w.platforms, w.currentPlatformId)
    THEN [w EXCEPT !.threw = TRUE]
    ELSE LET current == At(w.platforms, w.currentPlatformId)
             dx == desiredX - current.position.x
         IN  IF dx = 0 THEN w
             ELSE LET moved == [i \in DOMAIN w.platforms |->
                                  [w.platforms[i] EXCEPT !.position.x = @ + dx]]
                      w1 == [w EXCEPT !.platforms = moved]
                  IN  IF Len(moved) > trimThreshold
                      THEN LET kept == SliceLast(moved, trimKeep)
                           IN  [w1 EXCEPT
                                  !.platforms = kept,
                                  !.currentPlatformId = kept[1].id,
                                  !.targetPlatformId = kept[1].id + 1]
                      ELSE w1

(* recenterWorld trimming without re-anchoring targetPlatformId.           *)
recenterWorld_NoRetarget(w) ==
    IF ~Defined(w.platforms, w.currentPlatformId)
    THEN [w EXCEPT !.threw = TRUE]
    ELSE LET current == At(w.platforms, w.currentPlatformId)
             dx == desiredX - current.position.x
         IN  IF dx = 0 THEN w
             ELSE LET moved == [i \in DOMAIN w.platforms |->
                                  [w.platforms[i] EXCEPT !.position.x = @ + dx]]
                      w1 == [w EXCEPT !.platforms = moved,
                                      !.player.position.x = @ + dx * Scale]
                  IN  IF Len(moved) > trimThreshold
                      THEN LET kept == SliceLast(moved, trimKeep)
                           IN  [w1 EXCEPT
                                  !.platforms = kept,
                                  !.currentPlatformId = kept[1].id]
                      ELSE w1

recenterWorld(w) ==
    IF ~Defined(w.platforms, w.currentPlatformId)
    THEN [w EXCEPT !.threw = TRUE]
    ELSE LET current == At(w.platforms, w.currentPlatformId)
             dx == desiredX - current.position.x
         IN  IF dx = 0 THEN w
             ELSE LET moved == [i \in DOMAIN w.platforms |->
                                  [w.platforms[i] EXCEPT !.position.x = @ + dx]]
                      w1 == [w EXCEPT !.platforms = moved,
                                      !.player.position.x = @ + dx * Scale]
                  IN  IF Len(moved) > trimThreshold
                      THEN LET kept == SliceLast(moved, trimKeep)
                           IN  [w1 EXCEPT
                                  !.platforms = kept,
                                  !.currentPlatformId = kept[1].id,
                                  !.targetPlatformId = kept[1].id + 1]
                      ELSE w1

endGame(w) ==
    [w EXCEPT !.gameOver = TRUE, !.showOverlay = TRUE, !.gameStarted = TRUE]

(* The miss check without its margin below the screen.                     *)
Fell_NoMargin(pl) ==
    pl.position.y - pl.radius * Scale > canvasHeight * Scale

Fell(pl) ==
    pl.position.y - pl.radius * Scale > (canvasHeight + fallMargin) * Scale

(* The landing branch of update without the score increment.               *)
land_NoScore(w, target, r) ==
    recenterWorld(
        [w EXCEPT !.player.onGround = TRUE,
                  !.player.velocity = [x |-> 0, y |-> 0],
                  !.currentPlatformId = target.id,
                  !.targetPlatformId = target.id + 1,
                  !.platforms = Append(@, generateNextPlatform(target, r))])

(* The landing branch of update.                                           *)
land(w, target, r) ==
    recenterWorld(
        [w EXCEPT !.player.onGround = TRUE,
                  !.player.velocity = [x |-> 0, y |-> 0],
                  !.currentPlatformId = target.id,
                  !.targetPlatformId = target.id + 1,
                  !.platforms = Append(@, generateNextPlatform(target, r)),
                  !.score = @ + 1])

update(w, dt, r) ==
    IF ~ctx THEN w
    ELSE IF w.player.onGround THEN w
    ELSE LET vy == w.player.velocity.y + (gravity * dt) \div 1000
             w1 == [w EXCEPT
                      !.player.velocity.y = vy,
                      !.player.position.x = @ + w.player.velocity.x * dt,
                      !.player.position.y = @ + vy * dt]
         IN  IF ~Defined(w1.platforms, w1.targetPlatformId)
             THEN [w1 EXCEPT !.threw = TRUE]
             ELSE LET target == At(w1.platforms, w1.targetPlatformId)
                      w2 == IF checkLanding(w1.player, target)
                            THEN land(w1, target, r)
                            ELSE w1
                  IN  IF w2.threw THEN w2
                      ELSE IF Fell(w2.player) THEN endGame(w2)
                      ELSE w2

----------------------------------------------------------------------------
Playing == gameStarted /\ ~gameOver
Idle == ~gameStarted
Airborne == ~player.onGround

(* Writes a handler's result back to the page.                             *)
Store(w, op) ==
    /\ player' = w.player
    /\ platforms' = w.platforms
    /\ currentPlatformId' = w.currentPlatformId
    /\ targetPlatformId' = w.targetPlatformId
    /\ score' = w.score
    /\ gameStarted' = w.gameStarted
    /\ gameOver' = w.gameOver
    /\ showOverlay' = w.showOverlay
    /\ isPressing' = w.isPressing
    /\ faults' = IF w.threw THEN faults \cup {op} ELSE faults
    /\ lastOp' = op

(* History variables, written by the actions and read by no handler:       *)
(*   lastOp      the handler that ran last;                                 *)
(*   press       "down" after a press-start was delivered, "up" after a     *)
(*               press-end, "straddle" when restartGame ran while "down";   *)
(*   airPresses  press-starts taken while airborne since the last reset,    *)
(*               counted up to MaxAirPresses                                *)
(*               (bounded by MaxAirPresses);                                *)
(*   landings    ticks since the last reset that turned an airborne player  *)
(*               into a grounded one.                                       *)
Init ==
    /\ gameStarted = FALSE
    /\ gameOver = FALSE
    /\ showOverlay = TRUE
    /\ score = 0
    /\ ctx = FALSE
    /\ player = [position |-> [x |-> 0, y |-> 0],
                 velocity |-> [x |-> 0, y |-> 0],
                 radius |-> initialRadius,
                 onGround |-> FALSE]
    /\ platforms = <<>>
    /\ currentPlatformId = 0
    /\ targetPlatformId = 0
    /\ isPressing = FALSE
    /\ loopRunning = FALSE
    /\ faults = {}
    /\ lastOp = "onLoad"
    /\ press = "up"
    /\ airPresses = 0
    /\ landings = 0

(* The selector query of initCanvas answers: the context is stored, the    *)
(* world is reset and the first renderLoop(0) runs update(0).              *)
CanvasReadyWith(D) ==
    /\ ~ctx
    /\ \E r \in D : Store(resetWorld(World, r), "initCanvas")
    /\ airPresses' = 0
    /\ landings' = 0
    /\ ctx' = TRUE
    /\ loopRunning' = TRUE
    /\ UNCHANGED press

CanvasReady ==
    CanvasReadyWith(Draws)

StartGameWith(D) ==
    /\ \E r \in D : Store(startGame(World, r), "startGame")
    /\ airPresses' = IF gameStarted THEN airPresses ELSE 0
    /\ landings' = IF gameStarted THEN landings ELSE 0
    /\ UNCHANGED <<ctx, loopRunning, press>>

StartGame ==
    StartGameWith(Draws)

RestartGameWith(D) ==
    /\ \E r \in D : Store(restartGame(World, r), "restartGame")
    /\ airPresses' = 0
    /\ landings' = 0
    /\ press' = IF press = "down" THEN "straddle" ELSE press
    /\ UNCHANGED <<ctx, loopRunning>>

RestartGame ==
    RestartGameWith(Draws)

(* delivered tells whether the environment delivers a press-start in the   *)
(* current state; the handler itself has no such condition.                *)
OnTouchStartWhen(delivered) ==
    /\ delivered
    /\ Store(onTouchStart(World), "onTouchStart")
    /\ airPresses' = IF Playing /\ Airborne
                       THEN Min(airPresses + 1, MaxAirPresses)
                       ELSE airPresses
    /\ press' = "down"
    /\ UNCHANGED <<ctx, loopRunning, landings>>

OnTouchStart ==
    OnTouchStartWhen((Playing /\ Airborne) => airPresses < MaxAirPresses)

OnTouchEndWith(P) ==
    /\ \E dtMs \in P : Store(onTouchEnd(World, dtMs), "onTouchEnd")
    /\ press' = "up"
    /\ UNCHANGED <<ctx, loopRunning, airPresses, landings>>

OnTouchEnd ==
    OnTouchEndWith(PressDurations)

(* One animation frame: renderLoop computes dt, runs update and, unless    *)
(* update threw, schedules the next frame.                                 *)
RenderLoopWith(Dts, D) ==
    /\ loopRunning
    /\ player.position.y <= MaxDepth * Scale
    /\ \E dt \in Dts, r \in D :
         LET w == update(World, dt, r)
         IN  /\ Store(w, "update")
             /\ loopRunning' = ~w.threw
             /\ landings' = IF Airborne /\ w.player.onGround
                             THEN landings + 1 ELSE landings
    /\ UNCHANGED <<ctx, press, airPresses>>

RenderLoop ==
    RenderLoopWith(DtSet, Draws)

Next ==
    \/ CanvasReady
    \/ StartGame
    \/ RestartGame
    \/ OnTouchStart
    \/ OnTouchEnd
    \/ RenderLoop

Spec == Init /\ [][Next]_vars

-----------------------------------------------------------------------------
(* Sessions with both outcomes of the sign draw (Math.random() > 0.5) at   *)
(* every world reset and at the first MaxWideLandings landings after it,   *)
(* a press of 1190 ms included, in which the user presses only while the   *)
(* player is not in flight.                                                *)
MaxWideLandings == 1

WideDraws ==
    [dx : DxDraws, sign : {1, -1}, width : WidthDraws, yoff : YDraws]

WidePressDurations ==
    PressDurations \cup {1190}

CanvasReadyWide ==
    CanvasReadyWith(WideDraws)

StartGameWide ==
    StartGameWith(WideDraws)

RestartGameWide ==
    RestartGameWith(WideDraws)

OnTouchStartGrounded ==
    OnTouchStartWhen(~(Playing /\ Airborne))

OnTouchEndWide ==
    OnTouchEndWith(WidePressDurations)

RenderLoopWide ==
    RenderLoopWith(DtSet, IF score < MaxWideLandings THEN WideDraws ELSE Draws)

NextWide ==
    \/ CanvasReadyWide
    \/ StartGameWide
    \/ RestartGameWide
    \/ OnTouchStartGrounded
    \/ OnTouchEndWide
    \/ RenderLoopWide

SpecWide == Init /\ [][NextWide]_vars

-----------------------------------------------------------------------------
(* Sessions under the frame scheduling of renderLoop: as long as the loop  *)
(* runs, requestAnimationFrame delivers the next frame, 33 ms or more      *)
(* after the last one.  The user gives presses of 123 ms, on the ground    *)
(* and, any number of times, in flight while the player is over the target *)
(* platform, from MaxHover px above its landing band down to the band's    *)
(* lower edge.                                                             *)
MaxHover == 4

OverTarget ==
    /\ Defined(platforms, targetPlatformId)
    /\ LET target == At(platforms, targetPlatformId)
           px == player.position.x
           py == player.position.y + player.radius * Scale
       IN  /\ 2 * px >= (2 * target.position.x - target.size.x) * Scale
           /\ 2 * px <= (2 * target.position.x + target.size.x) * Scale
           /\ 2 * py >= (2 * target.position.y - target.size.y - 4
                           - 2 * MaxHover) * Scale
           /\ 2 * py <= (2 * target.position.y + target.size.y + 8) * Scale

OnTouchStartHover ==
    OnTouchStartWhen((Playing /\ Airborne) => OverTarget)

OnTouchEndShort ==
    OnTouchEndWith({123})

RenderLoopLive ==
    RenderLoopWith({maxDtMs},
                   IF score < MaxWideLandings THEN WideDraws ELSE Draws)

NextLive ==
    \/ CanvasReadyWide
    \/ StartGameWide
    \/ RestartGameWide
    \/ OnTouchStartHover
    \/ OnTouchEndShort
    \/ RenderLoopLive

SpecLive == Init /\ [][NextLive]_vars /\ WF_vars(RenderLoopLive)

----------------------------------------------------------------------------
(* Claims.                                                                 *)

(* resetWorld has run at least once.                                       *)
WorldReset == platforms # <<>>

ZeroVelocity == [x |-> 0, y |-> 0]

PlatformIds == {platforms[i].id : i \in DOMAIN platforms}

(* C1: once the world has been reset, after every completed handler        *)
(* targetPlatformId = currentPlatformId + 1, also around landings and      *)
(* landings that evict.                                                    *)
C1_TargetIsCurrentPlusOne ==
    WorldReset => targetPlatformId = currentPlatformId + 1

(* C1 witness: the state right after the landing that evicted.             *)
C1_AfterEvictingLanding ==
    /\ lastOp = "update"
    /\ score = trimThreshold - 1
    /\ Len(platforms) = trimKeep
    /\ targetPlatformId = currentPlatformId + 1

(* C2: no handler ever ends in an uncaught error: every read of            *)
(* platforms[currentPlatformId] and platforms[targetPlatformId] finds a    *)
(* platform, and the frame loop keeps running.                             *)
C2_NoOperationFaults == faults = {}

(* C3: once the world has been reset, some platform of the collection has  *)
(* id currentPlatformId and some platform has id targetPlatformId.         *)
C3_CurrentAndTargetPresent ==
    WorldReset => /\ currentPlatformId \in PlatformIds
                  /\ targetPlatformId \in PlatformIds

(* C3 witness: after eviction the ids no longer start at 0 and both are    *)
(* still present.                                                          *)
C3_PresentAfterEviction ==
    /\ Len(platforms) = trimKeep
    /\ platforms[1].id > 0
    /\ currentPlatformId \in PlatformIds
    /\ targetPlatformId \in PlatformIds

(* C4: a press-start or press-end delivered while Playing and airborne     *)
(* leaves the player's position, velocity and onGround flag unchanged.     *)
C4_AirbornePressIsNoOp ==
    [][(Playing /\ Airborne /\ lastOp' \in {"onTouchStart", "onTouchEnd"})
         => player' = player]_vars

(* C5: a press-end whose press-start was delivered before a restart, with  *)
(* no press-start since, does not launch: the player stays grounded with   *)
(* zero velocity.                                                          *)
C5_StraddlingPressIsVoid ==
    [][(press = "straddle" /\ lastOp' = "onTouchEnd")
         => (player'.onGround /\ player'.velocity = ZeroVelocity)]_vars

(* C6: a tick delivered while the session is Idle or GameOver leaves the   *)
(* player's position and velocity unchanged.                               *)
C6_PhysicsOnlyWhilePlaying ==
    [][(~Playing /\ lastOp' = "update")
         => (/\ player'.position = player.position
             /\ player'.velocity = player.velocity)]_vars

(* C7: a tick raises the score by exactly 1 when it lands the player and   *)
(* by 0 otherwise, press events leave the score alone, and the score       *)
(* equals the number of landings since the last reset.                     *)
C7_ScoreCountsLandings ==
    /\ [](score = landings)
    /\ [][/\ lastOp' = "update" =>
               score' = score + (IF Airborne /\ player'.onGround THEN 1 ELSE 0)
          /\ lastOp' \in {"onTouchStart", "onTouchEnd"} => score' = score]_vars

(* C7 witness: three landings made in one session.                         *)
C7_ThreeLandings ==
    /\ lastOp = "update"
    /\ Playing
    /\ landings = 3
    /\ score = 3

(* C8: the session moves only Idle -start-> Playing, Playing -fall->       *)
(* GameOver, GameOver -restart-> Playing: started is never cleared,        *)
(* startGame never leaves GameOver, GameOver is entered only from Playing  *)
(* by a tick that detects a fall, and gameOver implies gameStarted.        *)
C8_SessionStateMachine ==
    /\ [](gameOver => gameStarted)
    /\ [][/\ gameStarted => gameStarted'
          /\ (Idle /\ gameStarted') => (lastOp' = "startGame" /\ ~gameOver')
          /\ (~gameOver /\ gameOver') =>
               /\ Playing
               /\ lastOp' = "update"
               /\ player'.position.y - player'.radius * Scale
                    > (canvasHeight + fallMargin) * Scale
          /\ (gameOver /\ ~gameOver') => (lastOp' = "restartGame" /\ gameStarted')
          /\ (gameOver /\ lastOp' = "startGame") => gameOver']_vars

(* C8 witness: startGame was called in GameOver and the session stayed     *)
(* there.                                                                  *)
C8_StartIgnoredInGameOver ==
    /\ lastOp = "startGame"
    /\ gameStarted
    /\ gameOver

(* C9: a tick in Playing that leaves the player airborne ends the session  *)
(* exactly when position.y - radius > canvasHeight + 80.                   *)
C9_FallEndsSession ==
    [][(Playing /\ lastOp' = "update" /\ ~player'.onGround)
         => (gameOver' <=>
               player'.position.y - player'.radius * Scale
                 > (canvasHeight + fallMargin) * Scale)]_vars

(* C9 witness: the tick that detected the fall.                            *)
C9_FallDetected ==
    /\ lastOp = "update"
    /\ gameOver
    /\ ~player.onGround
    /\ player.position.y - player.radius * Scale
         > (canvasHeight + fallMargin) * Scale
    /\ player.position.y - player.radius * Scale
         - player.velocity.y * maxDtMs
         <= (canvasHeight + fallMargin) * Scale

(* C10: startGame called on a started session changes neither the score,   *)
(* the platforms, the current and target ids, the player nor the flags.    *)
C10_StartWhenStartedIsNoOp ==
    [][(gameStarted /\ lastOp' = "startGame")
         => UNCHANGED <<score, platforms, currentPlatformId, targetPlatformId,
                        player, gameStarted, gameOver>>]_vars

(* C10 witness: startGame called in the middle of a session with points.   *)
C10_StartCalledMidSession ==
    /\ lastOp = "startGame"
    /\ Playing
    /\ score > 0
    /\ Len(platforms) = score + 2

(* The shape resetWorld gives the world. *)
WorldIsFresh ==
    /\ score = 0
    /\ Len(platforms) = 2
    /\ platforms[1].id = 0
    /\ platforms[2].id = 1
    /\ currentPlatformId = 0
    /\ targetPlatformId = 1
    /\ player.onGround
    /\ player.velocity = ZeroVelocity
    /\ player.position.x = platforms[1].position.x * Scale
    /\ player.position.y
         = (platforms[1].position.y - player.radius - 6) * Scale

(* C11: a startGame delivered in Idle and every restartGame leave score 0, *)
(* exactly the platforms 0 and 1, currentPlatformId 0, targetPlatformId 1  *)
(* and the player at rest on platform 0; and the score goes from non-zero  *)
(* to 0 only in a handler that resets the world.                           *)
C11_ResetOnStartAndRestart ==
    [][ /\ (lastOp' = "restartGame" \/ (Idle /\ lastOp' = "startGame"))
           => WorldIsFresh'
        /\ (score # 0 /\ score' = 0)
           => lastOp' \in {"initCanvas", "startGame", "restartGame"} ]_vars

(* C11 witness: a restart that interrupted a session with a press down.    *)
C11_RestartedMidSession ==
    lastOp = "restartGame" /\ press = "straddle" /\ Playing /\ WorldIsFresh

LandingTick ==
    lastOp' = "update" /\ Airborne /\ player'.onGround

(* C13: the platform array never holds more than 8 platforms, whatever the *)
(* horizontal offset of the platform landed on.                            *)
C13_AtMostEightPlatforms ==
    Len(platforms) <= 8

(* C13 witness: a landing on a platform that already stood at the desired  *)
(* x, where recenterWorld returned before its trim.                        *)
C13_ZeroOffsetLanding ==
    /\ lastOp = "update"
    /\ score = 2
    /\ Len(platforms) = 4
    /\ platforms[2].position.x = desiredX
    /\ platforms[3].position.x = desiredX

(* C14: a landing tick that evicts leaves exactly 6 platforms: the 5       *)
(* newest of the array before the tick, in their order, and then the       *)
(* platform created by this landing.                                       *)
C14_EvictionKeepsNewestSix ==
    [][ (LandingTick /\ Len(platforms') < Len(platforms) + 1)
        => /\ Len(platforms') = 6
           /\ \A i \in 1..5 :
                LET old == platforms[Len(platforms) - 5 + i]
                IN  /\ platforms'[i].id = old.id
                    /\ platforms'[i].size = old.size
                    /\ platforms'[i].position.y = old.position.y
           /\ platforms'[6].id \notin PlatformIds
           /\ \A i \in 1..5 : platforms'[i].id < platforms'[6].id ]_vars

(* C14 witness: the array right after the eviction, ids 3 to 8.            *)
C14_AfterEviction ==
    /\ lastOp = "update"
    /\ player.onGround
    /\ [i \in DOMAIN platforms |-> platforms[i].id] = <<3, 4, 5, 6, 7, 8>>

(* C15: every generated platform lies at a horizontal distance within      *)
(* [minDx, maxDx] of the platform it was generated from, its predecessor   *)
(* in the array (recentering shifts both alike).                           *)
C15_GeneratedDistanceInRange ==
    \A i \in 1..(Len(platforms) - 1) :
        platforms[i + 1].id = platforms[i].id + 1
        => LET d == platforms[i + 1].position.x - platforms[i].position.x
               dist == IF d < 0 THEN -d ELSE d
           IN  dist >= minDx /\ dist <= maxDx

(* C16: in every state the ids of the platform array increase by exactly 1 *)
(* from each element to the next, so no id occurs twice.                   *)
C16_IdsConsecutive ==
    \A i \in 1..(Len(platforms) - 1) :
        platforms[i + 1].id = platforms[i].id + 1

(* C17: after a landing tick the platform landed on, the one update read   *)
(* as platforms[targetPlatformId], has center x = desiredX, and one and    *)
(* the same shift d was applied to every platform kept from before the     *)
(* tick, to the platform generated in the tick and to the player (after    *)
(* the tick's own motion).                                                 *)
C17_LandingRecentres ==
    [][ LandingTick =>
        LET target == At(platforms, targetPlatformId)
            n == Len(platforms')
            off == Len(platforms) + 1 - n
            d == platforms'[1].position.x - platforms[1 + off].position.x
        IN  /\ platforms'[targetPlatformId + 1 - off].id = target.id
            /\ platforms'[targetPlatformId + 1 - off].position.x
                 = Round(canvasWidth * 3, 10)
            /\ \A i \in 1..(n - 1) :
                 platforms'[i]
                   = [platforms[i + off] EXCEPT !.position.x = @ + d]
            /\ \E r \in WideDraws :
                 platforms'[n]
                   = [generateNextPlatform(target, r)
                        EXCEPT !.position.x = @ + d]
            /\ \E dt \in DtSet :
                 player'.position.x
                   = player.position.x + player.velocity.x * dt + d * Scale
      ]_vars

(* C17 witness: the first landing, on a platform generated to the left:    *)
(* everything moved right by desiredX - minX.                              *)
C17_ShiftedRight ==
    /\ lastOp = "update"
    /\ player.onGround
    /\ score = 1
    /\ platforms[1].position.x = 2 * desiredX - minX
    /\ platforms[2].position.x = desiredX

(* The player's bottom point and the landing band of checkLanding, in the  *)
(* units of the player's position.                                         *)
BottomPoint(pl) ==
    pl.position.y + pl.radius * Scale

BandTop(platform) ==
    platform.position.y * Scale - (platform.size.y * Scale) \div 2 - 2 * Scale

BandBottom(platform) ==
    platform.position.y * Scale + (platform.size.y * Scale) \div 2 + 4 * Scale

WithinExtent(pl, platform) ==
    /\ pl.position.x
         >= platform.position.x * Scale - (platform.size.x * Scale) \div 2
    /\ pl.position.x
         <= platform.position.x * Scale + (platform.size.x * Scale) \div 2

(* C18: no tick of at most 33 ms carries a descending player, whose x is   *)
(* within the target's extent before and after the tick, from above the    *)
(* landing band to below it without update detecting the landing.          *)
C18_NoTickSkipsBand ==
    [][ (/\ lastOp' = "update"
         /\ Playing
         /\ Airborne
         /\ Defined(platforms, targetPlatformId)
         /\ player'.velocity.y >= 0
         /\ WithinExtent(player, At(platforms, targetPlatformId))
         /\ BottomPoint(player) < BandTop(At(platforms, targetPlatformId)))
        => \/ player'.onGround
           \/ ~WithinExtent(player', At(platforms, targetPlatformId))
           \/ BottomPoint(player')
                <= BandBottom(At(platforms, targetPlatformId)) ]_vars

(* The player rests on the platform: inside its extent and landing band.   *)
StandsOn(pl, platform) ==
    /\ WithinExtent(pl, platform)
    /\ BottomPoint(pl) >= BandTop(platform)
    /\ BottomPoint(pl) <= BandBottom(platform)

(* C19: whenever the session is Playing and the player is grounded,        *)
(* platforms[currentPlatformId] is the platform the player stands on and   *)
(* platforms[targetPlatformId] is the platform created right after it.     *)
C19_IndexReadsFindCurrentAndNext ==
    (WorldReset /\ Playing /\ player.onGround)
    => /\ Defined(platforms, currentPlatformId)
       /\ Defined(platforms, targetPlatformId)
       /\ StandsOn(player, At(platforms, currentPlatformId))
       /\ At(platforms, targetPlatformId).id
            = At(platforms, currentPlatformId).id + 1

(* C20: while frames keep coming, a player in flight in a Playing session  *)
(* eventually is grounded again or the session is over, whatever the user  *)
(* does in between.                                                        *)
C20_JumpResolves ==
    (Playing /\ Airborne /\ loopRunning) ~> (player.onGround \/ gameOver)

====
